---- MODULE Spec2Model ----
(***************************************************************************)
(* The in-memory inode store of sia-fuse (src/src/storage.rs) and the      *)
(* attribute-setting handler of its FUSE adapter (src/src/fuse_impl.rs).   *)
(*                                                                         *)
(* The inode table `files` is a function from the inode numbers that have  *)
(* a record to FileData records; every store method is an operator from a  *)
(* table (and the call's arguments) to the new table and the call's        *)
(* result, and every action applies one call to the table under the lock.  *)
(*                                                                         *)
(* Of FileAttr the fields ino, size, kind, perm, nlink and mtime are kept. *)
(* uid, gid, rdev, flags, atime and ctime are written at creation, copied  *)
(* by set_attr, and read by no branch of the store or of setattr.          *)
(***************************************************************************)
EXTENDS Integers, Sequences, FiniteSets, TLC

VARIABLES files, next_inode, last, files_lock, pc

vars == <<files, next_inode, last, files_lock, pc>>

(***************************************************************************)
(* Bounds of the model.                                                    *)
(***************************************************************************)
\* allocate_inode is not called once next_inode exceeds MaxInode
MaxInode == 3
\* largest write offset and longest written data of SpecIO
MaxOffset == 2
MaxData == 2
\* usize is modelled UsizeBits wide: usize::MAX is 2^UsizeBits - 1
UsizeBits == 4

\* number of threads calling the store
MaxThreads == 2

\* largest number of entries one readdir reply holds
MaxCap == 2

UsizeMax == 2^UsizeBits - 1

\* u16, the width of FileAttr.perm
U16Modulus == 65536

Names == {"a", "b"}
Byte == {0, 1}

RootIno == 1
\* Option::None of an argument or a result
None == -1

Min(a, b) == IF a < b THEN a ELSE b
Max(a, b) == IF a > b THEN a ELSE b

\* sequences over S of length at most n
RECURSIVE SeqUpTo(_, _)
SeqUpTo(S, n) ==
    IF n = 0 THEN {<<>>}
    ELSE LET shorter == SeqUpTo(S, n - 1)
         IN shorter \cup {Append(s, x) : s \in {t \in shorter : Len(t) = n - 1}, x \in S}

(***************************************************************************)
(* Records of the store.                                                   *)
(***************************************************************************)
FileAttr(ino, size, kind, perm, nlink, mtime) ==
    [ino |-> ino, size |-> size, kind |-> kind, perm |-> perm,
     nlink |-> nlink, mtime |-> mtime]

DirEntry(ino, name, kind) == [ino |-> ino, name |-> name, kind |-> kind]

FileData(attr) == [attr |-> attr, content |-> <<>>, children |-> <<>>]

\* the attribute value standing for an absent Option<FileAttr>
NoAttr == FileAttr(0, 0, "None", 0, 0, 0)

\* HashMap::insert
Insert(f, ino, data) ==
    [i \in DOMAIN f \cup {ino} |-> IF i = ino THEN data ELSE f[i]]

\* HashMap::remove
Remove(f, ino) == [i \in DOMAIN f \ {ino} |-> f[i]]

\* Vec::remove(pos), pos counted from 1
RemoveAt(s, pos) == [i \in 1..(Len(s) - 1) |-> IF i < pos THEN s[i] ELSE s[i + 1]]

\* Vec::resize(n, 0)
Resize(s, n) == [i \in 1..n |-> IF i <= Len(s) THEN s[i] ELSE 0]

\* Iterator::position / Iterator::find: the first index whose entry has the
\* name (and the kind, unless kind is "Any"); 0 when there is none
Position(children, name, kind) ==
    LET hits == {i \in 1..Len(children) :
                    /\ children[i].name = name
                    /\ (kind = "Any" \/ children[i].kind = kind)}
    IN IF hits = {} THEN 0 ELSE CHOOSE i \in hits : \A j \in hits : i <= j

(***************************************************************************)
(* InMemoryStorage                                                         *)
(***************************************************************************)
\* InMemoryStorage::new: the table holding the root directory
new(now) ==
    (RootIno :> FileData(FileAttr(RootIno, 0, "Directory", 493, 2, now)))

get_attr(f, ino) == IF ino \in DOMAIN f THEN f[ino].attr ELSE NoAttr

set_attr(f, ino, attr) ==
    IF ino \in DOMAIN f
    THEN [files |-> [f EXCEPT ![ino].attr = attr], ok |-> TRUE]
    ELSE [files |-> f, ok |-> FALSE]

\* read without the bound by size: the slice runs to the end of the content
read_to_end(f, ino, offset, size, checks) ==
    IF ino \notin DOMAIN f
    THEN [some |-> FALSE, panic |-> FALSE, data |-> <<>>]
    ELSE LET content == f[ino].content
         IN [some |-> TRUE, panic |-> FALSE,
             data |-> IF offset >= Len(content) THEN <<>>
                      ELSE SubSeq(content, offset + 1, Len(content))]

\* read: `checks` is the build's overflow-checks setting; offset + size
\* panics under it when it exceeds usize::MAX and wraps otherwise, and the
\* slice content[offset..end] panics when offset > end
read(f, ino, offset, size, checks) ==
    IF ino \notin DOMAIN f
    THEN [some |-> FALSE, panic |-> FALSE, data |-> <<>>]
    ELSE LET content == f[ino].content
             sum == offset + size
             end == Min(sum % (UsizeMax + 1), Len(content))
         IN IF sum > UsizeMax /\ checks
            THEN [some |-> FALSE, panic |-> TRUE, data |-> <<>>]
            ELSE IF offset >= Len(content)
            THEN [some |-> TRUE, panic |-> FALSE, data |-> <<>>]
            ELSE IF offset > end
            THEN [some |-> FALSE, panic |-> TRUE, data |-> <<>>]
            ELSE [some |-> TRUE, panic |-> FALSE,
                  data |-> SubSeq(content, offset + 1, end)]

\* write that resizes the content to `end` whether or not it is longer
write_resize_always(f, ino, offset, data, now) ==
    IF ino \notin DOMAIN f
    THEN [files |-> f, some |-> FALSE, n |-> 0]
    ELSE LET file == f[ino]
             end == offset + Len(data)
             grown == Resize(file.content, end)
             copied == [i \in 1..Len(grown) |->
                          IF offset < i /\ i <= end THEN data[i - offset] ELSE grown[i]]
         IN [files |-> [f EXCEPT ![ino] =
                           [@ EXCEPT !.content = copied,
                                     !.attr = [@ EXCEPT !.size = Len(copied),
                                                        !.mtime = now]]],
             some |-> TRUE, n |-> Len(data)]

\* write that makes the record when the inode has none
write_upsert(f, ino, offset, data, now) ==
    LET file == IF ino \in DOMAIN f THEN f[ino]
                ELSE FileData(FileAttr(ino, 0, "File", 0, 1, now))
        end == offset + Len(data)
        grown == IF end > Len(file.content)
                 THEN Resize(file.content, end) ELSE file.content
        copied == [i \in 1..Len(grown) |->
                     IF offset < i /\ i <= end THEN data[i - offset] ELSE grown[i]]
    IN [files |-> Insert(f, ino, [file EXCEPT !.content = copied,
                                              !.attr = [@ EXCEPT !.size = Len(copied),
                                                                 !.mtime = now]]),
        some |-> TRUE, n |-> Len(data)]

\* write: the callers of this model keep offset + len(data) below usize::MAX
write(f, ino, offset, data, now) ==
    IF ino \notin DOMAIN f
    THEN [files |-> f, some |-> FALSE, n |-> 0]
    ELSE LET file == f[ino]
             end == offset + Len(data)
             grown == IF end > Len(file.content)
                      THEN Resize(file.content, end) ELSE file.content
             copied == [i \in 1..Len(grown) |->
                          IF offset < i /\ i <= end THEN data[i - offset] ELSE grown[i]]
         IN [files |-> [f EXCEPT ![ino] =
                           [@ EXCEPT !.content = copied,
                                     !.attr = [@ EXCEPT !.size = Len(copied),
                                                        !.mtime = now]]],
             some |-> TRUE, n |-> Len(data)]

\* create_file, given the number allocate_inode returned
create_file(f, ino, parent, name, perm, now) ==
    LET attr == FileAttr(ino, 0, "File", perm, 1, now)
        added == Insert(f, ino, FileData(attr))
    IN [files |-> IF parent \in DOMAIN added
                  THEN [added EXCEPT ![parent] =
                          [@ EXCEPT !.children = Append(@, DirEntry(ino, name, "File")),
                                    !.attr = [@ EXCEPT !.mtime = now]]]
                  ELSE added,
        attr |-> attr]

\* create_dir that leaves the parent's link count alone
create_dir_nolink(f, ino, parent, name, perm, now) ==
    LET attr == FileAttr(ino, 0, "Directory", perm, 2, now)
        added == Insert(f, ino, FileData(attr))
    IN [files |-> IF parent \in DOMAIN added
                  THEN [added EXCEPT ![parent] =
                          [@ EXCEPT !.children = Append(@, DirEntry(ino, name, "Directory")),
                                    !.attr = [@ EXCEPT !.mtime = now]]]
                  ELSE added,
        attr |-> attr]

\* create_dir, given the number allocate_inode returned
create_dir(f, ino, parent, name, perm, now) ==
    LET attr == FileAttr(ino, 0, "Directory", perm, 2, now)
        added == Insert(f, ino, FileData(attr))
    IN [files |-> IF parent \in DOMAIN added
                  THEN [added EXCEPT ![parent] =
                          [@ EXCEPT !.children = Append(@, DirEntry(ino, name, "Directory")),
                                    !.attr = [@ EXCEPT !.mtime = now,
                                                       !.nlink = @ + 1]]]
                  ELSE added,
        attr |-> attr]

read_dir(f, ino) ==
    IF ino \in DOMAIN f THEN [some |-> TRUE, entries |-> f[ino].children]
    ELSE [some |-> FALSE, entries |-> <<>>]

lookup(f, parent, name) ==
    IF parent \notin DOMAIN f THEN NoAttr
    ELSE LET pos == Position(f[parent].children, name, "Any")
         IN IF pos = 0 THEN NoAttr
            ELSE get_attr(f, f[parent].children[pos].ino)

\* unlink that drops the parent's record instead of the entry's target
unlink_dropparent(f, parent, name, now) ==
    IF parent \notin DOMAIN f THEN [files |-> f, ok |-> FALSE]
    ELSE LET pos == Position(f[parent].children, name, "File")
         IN IF pos = 0 THEN [files |-> f, ok |-> FALSE]
            ELSE LET cut == [f EXCEPT ![parent] =
                               [@ EXCEPT !.children = RemoveAt(@, pos),
                                         !.attr = [@ EXCEPT !.mtime = now]]]
                 IN [files |-> Remove(cut, parent), ok |-> TRUE]

\* unlink that refreshes the parent's modify-time before it looks for the entry
unlink_touchfirst(f, parent, name, now) ==
    IF parent \notin DOMAIN f THEN [files |-> f, ok |-> FALSE]
    ELSE LET touched == [f EXCEPT ![parent].attr.mtime = now]
             pos == Position(f[parent].children, name, "File")
         IN IF pos = 0 THEN [files |-> touched, ok |-> FALSE]
            ELSE LET ino == f[parent].children[pos].ino
                     cut == [touched EXCEPT ![parent].children = RemoveAt(@, pos)]
                 IN [files |-> Remove(cut, ino), ok |-> TRUE]

\* unlink that matches the entry by its name alone
unlink_anykind(f, parent, name, now) ==
    IF parent \notin DOMAIN f THEN [files |-> f, ok |-> FALSE]
    ELSE LET pos == Position(f[parent].children, name, "Any")
         IN IF pos = 0 THEN [files |-> f, ok |-> FALSE]
            ELSE LET ino == f[parent].children[pos].ino
                     cut == [f EXCEPT ![parent] =
                               [@ EXCEPT !.children = RemoveAt(@, pos),
                                         !.attr = [@ EXCEPT !.mtime = now]]]
                 IN [files |-> Remove(cut, ino), ok |-> TRUE]

\* unlink that drops the record and leaves the entry in the parent
unlink_keepentry(f, parent, name, now) ==
    IF parent \notin DOMAIN f THEN [files |-> f, ok |-> FALSE]
    ELSE LET pos == Position(f[parent].children, name, "File")
         IN IF pos = 0 THEN [files |-> f, ok |-> FALSE]
            ELSE LET ino == f[parent].children[pos].ino
                     cut == [f EXCEPT ![parent] =
                               [@ EXCEPT !.attr = [@ EXCEPT !.mtime = now]]]
                 IN [files |-> Remove(cut, ino), ok |-> TRUE]

unlink(f, parent, name, now) ==
    IF parent \notin DOMAIN f THEN [files |-> f, ok |-> FALSE]
    ELSE LET pos == Position(f[parent].children, name, "File")
         IN IF pos = 0 THEN [files |-> f, ok |-> FALSE]
            ELSE LET ino == f[parent].children[pos].ino
                     cut == [f EXCEPT ![parent] =
                               [@ EXCEPT !.children = RemoveAt(@, pos),
                                         !.attr = [@ EXCEPT !.mtime = now]]]
                 IN [files |-> Remove(cut, ino), ok |-> TRUE]

\* rmdir without the check that the directory is empty
rmdir_unchecked(f, parent, name, now) ==
    IF parent \notin DOMAIN f THEN [files |-> f, ok |-> FALSE]
    ELSE LET pos == Position(f[parent].children, name, "Directory")
         IN IF pos = 0 THEN [files |-> f, ok |-> FALSE]
            ELSE LET ino == f[parent].children[pos].ino
                     cut == [f EXCEPT ![parent] =
                               [@ EXCEPT !.children = RemoveAt(@, pos),
                                         !.attr = [@ EXCEPT !.mtime = now,
                                                            !.nlink = @ - 1]]]
                 IN [files |-> Remove(cut, ino), ok |-> TRUE]

rmdir(f, parent, name, now) ==
    IF parent \notin DOMAIN f THEN [files |-> f, ok |-> FALSE]
    ELSE LET pos == Position(f[parent].children, name, "Directory")
         IN IF pos = 0 THEN [files |-> f, ok |-> FALSE]
            ELSE LET ino == f[parent].children[pos].ino
                 IN IF ino \in DOMAIN f /\ f[ino].children # <<>>
                    THEN [files |-> f, ok |-> FALSE]
                    ELSE LET cut == [f EXCEPT ![parent] =
                                       [@ EXCEPT !.children = RemoveAt(@, pos),
                                                 !.attr = [@ EXCEPT !.mtime = now,
                                                                    !.nlink = @ - 1]]]
                         IN [files |-> Remove(cut, ino), ok |-> TRUE]

(***************************************************************************)
(* SiaFuseFilesystem::setattr: get_attr, then (for a size on a file) read  *)
(* of the whole content and write of the sliced or zero-extended content   *)
(* at offset 0, then set_attr of the attributes fetched at the start with  *)
(* the requested fields replaced.  mode and size are None when not given.  *)
(***************************************************************************)
setattr(f, ino, mode, size, now) ==
    IF ino \notin DOMAIN f THEN [files |-> f, attr |-> NoAttr]
    ELSE LET a0 == get_attr(f, ino)
             a1 == IF mode # None THEN [a0 EXCEPT !.perm = mode % U16Modulus] ELSE a0
             attr == IF size # None THEN [a1 EXCEPT !.size = size] ELSE a1
             current_data == read(f, ino, 0, UsizeMax, TRUE).data
             f1 == IF size # None /\ attr.kind = "File"
                   THEN IF size < Len(current_data)
                        THEN write(f, ino, 0, SubSeq(current_data, 1, size), now).files
                        ELSE IF size > Len(current_data)
                        THEN write(f, ino, 0, Resize(current_data, size), now).files
                        ELSE f
                   ELSE f
         IN [files |-> set_attr(f1, ino, attr).files, attr |-> attr]

(***************************************************************************)
(* SiaFuseFilesystem::readdir.  The reply holds at most cap entries:       *)
(* reply.add returns true, without adding, when it is full.  Each entry    *)
(* carries the cursor that resumes after it.                               *)
(***************************************************************************)
ReplyEntry(ino, offset, kind, name) ==
    [ino |-> ino, offset |-> offset, kind |-> kind, name |-> name]

\* the entries the loop offers to the reply from resume position offset on;
\* the entry at index i (counted from 0) has entry_offset i + 2 and carries
\* the cursor entry_offset + step
Offered(entries, offset, step) ==
    LET idx == SelectSeq([k \in 1..Len(entries) |-> k - 1],
                         LAMBDA i : ~(i + 2 < offset))
    IN [k \in 1..Len(idx) |->
          ReplyEntry(entries[idx[k] + 1].ino, (idx[k] + 2) + step,
                     entries[idx[k] + 1].kind, entries[idx[k] + 1].name)]

\* readdir whose entries carry their own position as cursor
readdir_cursor_self(f, ino, offset, cap) ==
    LET dir == read_dir(f, ino)
        b1 == IF offset = 0 THEN <<ReplyEntry(ino, 1, "Directory", ".")>> ELSE <<>>
        b2 == IF offset <= 1 THEN Append(b1, ReplyEntry(ino, 2, "Directory", ".."))
              ELSE b1
        rest == Offered(dir.entries, offset, 0)
    IN IF ~dir.some THEN [reply |-> "ENOENT", out |-> <<>>]
       ELSE IF offset = 0 /\ cap <= 0 THEN [reply |-> "ok", out |-> <<>>]
       ELSE IF offset <= 1 /\ cap <= Len(b1) THEN [reply |-> "ok", out |-> b1]
       ELSE [reply |-> "ok",
             out |-> b2 \o SubSeq(rest, 1, Min(Len(rest), cap - Len(b2)))]

readdir(f, ino, offset, cap) ==
    LET dir == read_dir(f, ino)
        b1 == IF offset = 0 THEN <<ReplyEntry(ino, 1, "Directory", ".")>> ELSE <<>>
        b2 == IF offset <= 1 THEN Append(b1, ReplyEntry(ino, 2, "Directory", ".."))
              ELSE b1
        rest == Offered(dir.entries, offset, 1)
    IN IF ~dir.some THEN [reply |-> "ENOENT", out |-> <<>>]
       ELSE IF offset = 0 /\ cap <= 0 THEN [reply |-> "ok", out |-> <<>>]
       ELSE IF offset <= 1 /\ cap <= Len(b1) THEN [reply |-> "ok", out |-> b1]
       ELSE [reply |-> "ok",
             out |-> b2 \o SubSeq(rest, 1, Min(Len(rest), cap - Len(b2)))]

(***************************************************************************)
(* SiaFuseFilesystem::rmdir: the store's rmdir and the reply made of it.   *)
(***************************************************************************)
fuse_rmdir(f, parent, name, now) ==
    LET r == rmdir(f, parent, name, now)
    IN [files |-> r.files, reply |-> IF r.ok THEN "ok" ELSE "ENOTEMPTY"]

(***************************************************************************)
(* The calls.  `last` records the latest call: the method, the inode       *)
(* number and the name it was given, and whether it returned Some / true.  *)
(***************************************************************************)
(***************************************************************************)
(* The lock of the table, and where each thread stands in its call.        *)
(* files_lock is the RwLock around the table: the writer bit with the      *)
(* thread that set it, and the shared guards each thread holds.  A thread  *)
(* takes the exclusive lock by setting the writer bit and then waiting     *)
(* for the shared guards to be dropped; while the bit is set no new        *)
(* shared guard is granted.                                                *)
(***************************************************************************)
Threads == 1..MaxThreads
NoThread == 0

Unlocked == [writer |-> NoThread, readers |-> [t \in Threads |-> 0]]

Idle == [op |-> "idle", stage |-> "", parent |-> 0, name |-> "", ino |-> 0]

Stage(op, stage, parent, name, ino) ==
    [op |-> op, stage |-> stage, parent |-> parent, name |-> name, ino |-> ino]

\* RwLock::read is granted
CanRead(l) == l.writer = NoThread

\* RwLock::write may set the writer bit
CanClaim(l) == l.writer = NoThread

\* every shared guard has been dropped
Drained(l) == \A t \in Threads : l.readers[t] = 0

Call(op, ino, name, ok) == [op |-> op, ino |-> ino, name |-> name, ok |-> ok]

Init ==
    /\ files = new(0)
    /\ next_inode = 2
    /\ last = Call("new", 0, "", TRUE)
    /\ files_lock = Unlocked
    /\ pc = [t \in Threads |-> Idle]

\* allocate_inode that hands the number out and leaves the counter alone
allocate_inode_noinc(next) == [ino |-> next, next |-> next]

\* allocate_inode: the number handed out and the counter afterwards
allocate_inode(next) == [ino |-> next, next |-> next + 1]

CreateFile(maxIno, parents, names, perms, times) ==
    /\ next_inode <= maxIno
    /\ UNCHANGED <<files_lock, pc>>
    /\ \E parent \in parents, name \in names, perm \in perms, now \in times :
          LET a == allocate_inode(next_inode)
              r == create_file(files, a.ino, parent, name, perm % U16Modulus, now)
          IN /\ files' = r.files
             /\ next_inode' = a.next
             /\ last' = Call("create_file", parent, name, TRUE)

CreateDir(maxIno, parents, names, perms, times) ==
    /\ next_inode <= maxIno
    /\ UNCHANGED <<files_lock, pc>>
    /\ \E parent \in parents, name \in names, perm \in perms, now \in times :
          LET a == allocate_inode(next_inode)
              r == create_dir(files, a.ino, parent, name, perm % U16Modulus, now)
          IN /\ files' = r.files
             /\ next_inode' = a.next
             /\ last' = Call("create_dir", parent, name, TRUE)

Unlink(parents, names, times) ==
    \E parent \in parents, name \in names, now \in times :
       LET r == unlink(files, parent, name, now)
       IN /\ files' = r.files
          /\ last' = Call("unlink", parent, name, r.ok)
          /\ UNCHANGED <<next_inode, files_lock, pc>>

Rmdir(parents, names, times) ==
    \E parent \in parents, name \in names, now \in times :
       LET r == fuse_rmdir(files, parent, name, now)
       IN /\ files' = r.files
          /\ last' = Call("rmdir", parent, name, r.reply = "ok")
          /\ UNCHANGED <<next_inode, files_lock, pc>>

Lookup(parents, names) ==
    \E parent \in parents, name \in names :
       /\ last' = Call("lookup", parent, name, lookup(files, parent, name) # NoAttr)
       /\ UNCHANGED <<files, next_inode, files_lock, pc>>

Write(inos, offsets, datas, times) ==
    \E ino \in inos, offset \in offsets, data \in datas, now \in times :
       LET r == write(files, ino, offset, data, now)
       IN /\ files' = r.files
          /\ last' = Call("write", ino, "", r.some)
          /\ UNCHANGED <<next_inode, files_lock, pc>>

Read(inos, offsets, sizes) ==
    \E ino \in inos, offset \in offsets, size \in sizes, checks \in BOOLEAN :
       LET r == read(files, ino, offset, size, checks)
       IN /\ last' = Call("read", ino, "", r.some)
          /\ UNCHANGED <<files, next_inode, files_lock, pc>>

Setattr(inos, modes, sizes, times) ==
    \E ino \in inos, mode \in modes, size \in sizes, now \in times :
       LET r == setattr(files, ino, mode, size, now)
       IN /\ files' = r.files
          /\ last' = Call("setattr", ino, "", r.attr # NoAttr)
          /\ UNCHANGED <<next_inode, files_lock, pc>>

ReadDir(inos, offsets, caps) ==
    \E ino \in inos, offset \in offsets, cap \in caps :
       /\ last' = Call("readdir", ino, "", readdir(files, ino, offset, cap).reply = "ok")
       /\ UNCHANGED <<files, next_inode, files_lock, pc>>

(***************************************************************************)
(* The calls of concurrent threads, one action per step between two lock   *)
(* operations.                                                             *)
(***************************************************************************)
\* a thread calls lookup
LookupBegin(t, parents, names) ==
    /\ pc[t] = Idle
    /\ \E parent \in parents, name \in names :
          pc' = [pc EXCEPT ![t] = Stage("lookup", "invoked", parent, name, 0)]
    /\ UNCHANGED <<files, next_inode, last, files_lock>>

\* lookup's first self.files.read()
LookupLock(t) ==
    /\ pc[t].op = "lookup" /\ pc[t].stage = "invoked"
    /\ CanRead(files_lock)
    /\ files_lock' = [files_lock EXCEPT !.readers[t] = @ + 1]
    /\ pc' = [pc EXCEPT ![t].stage = "held"]
    /\ UNCHANGED <<files, next_inode, last>>

\* the parent has no record or no entry with the name: lookup returns None
LookupMiss(t) ==
    /\ pc[t].op = "lookup" /\ pc[t].stage = "held"
    /\ ~(/\ pc[t].parent \in DOMAIN files
         /\ Position(files[pc[t].parent].children, pc[t].name, "Any") # 0)
    /\ files_lock' = [files_lock EXCEPT !.readers[t] = @ - 1]
    /\ pc' = [pc EXCEPT ![t] = Idle]
    /\ last' = Call("lookup", pc[t].parent, pc[t].name, FALSE)
    /\ UNCHANGED <<files, next_inode>>

\* an entry was found: lookup's second self.files.read(), the first guard
\* still held
LookupRelock(t) ==
    /\ pc[t].op = "lookup" /\ pc[t].stage = "held"
    /\ pc[t].parent \in DOMAIN files
    /\ Position(files[pc[t].parent].children, pc[t].name, "Any") # 0
    /\ CanRead(files_lock)
    /\ files_lock' = [files_lock EXCEPT !.readers[t] = @ + 1]
    /\ pc' = [pc EXCEPT ![t].stage = "held2"]
    /\ UNCHANGED <<files, next_inode, last>>

\* lookup returns the target's attributes and drops both guards
LookupReturn(t) ==
    /\ pc[t].op = "lookup" /\ pc[t].stage = "held2"
    /\ files_lock' = [files_lock EXCEPT !.readers[t] = @ - 2]
    /\ pc' = [pc EXCEPT ![t] = Idle]
    /\ last' = Call("lookup", pc[t].parent, pc[t].name,
                    lookup(files, pc[t].parent, pc[t].name) # NoAttr)
    /\ UNCHANGED <<files, next_inode>>

\* a thread calls create_file or create_dir, which begins with allocate_inode
CreateBegin(t, maxIno, ops, parents, names) ==
    /\ pc[t] = Idle
    /\ next_inode <= maxIno
    /\ \E op \in ops, parent \in parents, name \in names :
          LET a == allocate_inode(next_inode)
          IN /\ next_inode' = a.next
             /\ pc' = [pc EXCEPT ![t] = Stage(op, "allocated", parent, name, a.ino)]
    /\ UNCHANGED <<files, last, files_lock>>

\* self.files.write() sets the writer bit
ClaimWriter(t) ==
    /\ pc[t].stage = "allocated"
    /\ CanClaim(files_lock)
    /\ files_lock' = [files_lock EXCEPT !.writer = t]
    /\ pc' = [pc EXCEPT ![t].stage = "claimed"]
    /\ UNCHANGED <<files, next_inode, last>>

\* the shared guards are gone: the create runs under the exclusive guard
\* and drops it
CreateLocked(t, perms, times) ==
    /\ pc[t].stage = "claimed"
    /\ files_lock.writer = t
    /\ Drained(files_lock)
    /\ \E perm \in perms, now \in times :
          files' = IF pc[t].op = "create_file"
                   THEN create_file(files, pc[t].ino, pc[t].parent, pc[t].name,
                                    perm % U16Modulus, now).files
                   ELSE create_dir(files, pc[t].ino, pc[t].parent, pc[t].name,
                                   perm % U16Modulus, now).files
    /\ files_lock' = [files_lock EXCEPT !.writer = NoThread]
    /\ pc' = [pc EXCEPT ![t] = Idle]
    /\ last' = Call(pc[t].op, pc[t].parent, pc[t].name, TRUE)
    /\ UNCHANGED next_inode

(***************************************************************************)
(* The adapter's calls on concurrent threads.  setattr makes its store     *)
(* calls one after the other, each taking and dropping the table's lock:   *)
(* get_attr, then for a size change of a file read and, when the length    *)
(* differs, write, then set_attr of the attributes it fetched at the       *)
(* start.  write, mkdir, unlink and rmdir make one store call each, mkdir  *)
(* after allocate_inode.  A thread's frame holds the call's arguments and  *)
(* local variables, and the table at the time of the call.                 *)
(***************************************************************************)
Frame == [op |-> "", stage |-> "", ino |-> 0, name |-> "", mode |-> None,
          size |-> None, attr |-> NoAttr, data |-> <<>>, new |-> 0,
          base |-> <<>>]

StoreOps == {"write", "mkdir", "unlink", "rmdir"}

\* a thread calls setattr(ino, mode, size)
SetattrBegin(t, inos, modes, sizes) ==
    /\ pc[t] = Idle
    /\ \E ino \in inos, mode \in modes, size \in sizes :
          pc' = [pc EXCEPT ![t] = [Frame EXCEPT !.op = "setattr", !.stage = "invoked",
                                                !.ino = ino, !.mode = mode,
                                                !.size = size, !.base = files]]
    /\ UNCHANGED <<files, next_inode, last, files_lock>>

\* storage.get_attr(ino) under a shared guard, and the update of the local
\* copy; ENOENT when there is no record
SetattrGetAttr(t) ==
    /\ pc[t].op = "setattr" /\ pc[t].stage = "invoked"
    /\ CanRead(files_lock)
    /\ LET a0 == get_attr(files, pc[t].ino)
           a1 == IF pc[t].mode # None
                 THEN [a0 EXCEPT !.perm = pc[t].mode % U16Modulus] ELSE a0
           attr == IF pc[t].size # None THEN [a1 EXCEPT !.size = pc[t].size] ELSE a1
       IN IF a0 = NoAttr
          THEN /\ pc' = [pc EXCEPT ![t].stage = "returned"]
               /\ last' = Call("setattr", pc[t].ino, "", FALSE)
          ELSE /\ pc' = [pc EXCEPT ![t].attr = attr,
                                   ![t].stage = IF pc[t].size # None /\ attr.kind = "File"
                                                THEN "read" ELSE "set"]
               /\ UNCHANGED last
    /\ UNCHANGED <<files, next_inode, files_lock>>

\* storage.read(ino, 0, usize::MAX) under a shared guard
SetattrRead(t) ==
    /\ pc[t].op = "setattr" /\ pc[t].stage = "read"
    /\ CanRead(files_lock)
    /\ LET current_data == read(files, pc[t].ino, 0, UsizeMax, TRUE).data
       IN pc' = [pc EXCEPT ![t].data = current_data,
                           ![t].stage = IF pc[t].size # Len(current_data)
                                        THEN "write" ELSE "set"]
    /\ UNCHANGED <<files, next_inode, last, files_lock>>

\* storage.write(ino, 0, ..) of the sliced or zero-extended content read
\* before, under the exclusive guard
SetattrWrite(t, times) ==
    /\ pc[t].op = "setattr" /\ pc[t].stage = "write"
    /\ CanClaim(files_lock) /\ Drained(files_lock)
    /\ \E now \in times :
          files' = write(files, pc[t].ino, 0,
                         IF pc[t].size < Len(pc[t].data)
                         THEN SubSeq(pc[t].data, 1, pc[t].size)
                         ELSE Resize(pc[t].data, pc[t].size), now).files
    /\ pc' = [pc EXCEPT ![t].stage = "set"]
    /\ UNCHANGED <<next_inode, last, files_lock>>

\* storage.set_attr(ino, attr) under the exclusive guard, and the reply
SetattrSetAttr(t) ==
    /\ pc[t].op = "setattr" /\ pc[t].stage = "set"
    /\ CanClaim(files_lock) /\ Drained(files_lock)
    /\ files' = set_attr(files, pc[t].ino, pc[t].attr).files
    /\ pc' = [pc EXCEPT ![t].stage = "returned"]
    /\ last' = Call("setattr", pc[t].ino, "", TRUE)
    /\ UNCHANGED <<next_inode, files_lock>>

\* a thread calls write(ino, 0, data), unlink(ino, name), rmdir(ino, name)
\* or mkdir(ino, name), which begins with allocate_inode
StoreBegin(t, maxIno, ops, inos, names, datas) ==
    /\ pc[t] = Idle
    /\ \E op \in ops, ino \in inos, name \in names, data \in datas :
          LET a == allocate_inode(next_inode)
              frame == [Frame EXCEPT !.op = op, !.stage = "called", !.ino = ino,
                                     !.base = files]
          IN IF op = "mkdir"
             THEN /\ next_inode <= maxIno
                  /\ next_inode' = a.next
                  /\ pc' = [pc EXCEPT ![t] = [frame EXCEPT !.name = name, !.new = a.ino]]
             ELSE /\ UNCHANGED next_inode
                  /\ pc' = [pc EXCEPT ![t] = IF op = "write"
                                             THEN [frame EXCEPT !.data = data]
                                             ELSE [frame EXCEPT !.name = name]]
    /\ UNCHANGED <<files, last, files_lock>>

\* the table after the store call of frame c
StoreCall(f, c, perm, now) ==
    IF c.op = "write" THEN write(f, c.ino, 0, c.data, now)
    ELSE IF c.op = "mkdir"
    THEN [files |-> create_dir(f, c.new, c.ino, c.name, perm % U16Modulus, now).files,
          ok |-> TRUE]
    ELSE IF c.op = "unlink" THEN unlink(f, c.ino, c.name, now)
    ELSE [files |-> fuse_rmdir(f, c.ino, c.name, now).files,
          ok |-> fuse_rmdir(f, c.ino, c.name, now).reply = "ok"]

\* the store call runs under the exclusive guard, and the reply
StoreLocked(t, perms, times) ==
    /\ pc[t].op \in StoreOps /\ pc[t].stage = "called"
    /\ CanClaim(files_lock) /\ Drained(files_lock)
    /\ \E perm \in perms, now \in times :
          LET r == StoreCall(files, pc[t], perm, now)
          IN /\ files' = r.files
             /\ last' = Call(pc[t].op, pc[t].ino, pc[t].name,
                             IF pc[t].op = "write" THEN r.some ELSE r.ok)
    /\ pc' = [pc EXCEPT ![t].stage = "returned"]
    /\ UNCHANGED <<next_inode, files_lock>>

(***************************************************************************)
(* Spec: the tree.  Every create, unlink, rmdir and lookup on the inode    *)
(* numbers 1..MaxInode+1 (the last one never has a record), and one-byte   *)
(* writes and setattr calls on the first inode created.                    *)
(***************************************************************************)
Inos == 1..(MaxInode + 1)
Perms == {420}
Times == {1}
FirstIno == {2}

Next ==
    \/ CreateFile(MaxInode, Inos, Names, Perms, Times)
    \/ CreateDir(MaxInode, Inos, Names, Perms, Times)
    \/ Unlink(Inos, Names, Times)
    \/ Rmdir(Inos, Names, Times)
    \/ Lookup(Inos, Names)
    \/ Write(FirstIno, {0}, {<<1>>}, Times)
    \/ Setattr(FirstIno, {None, 493}, {None, 0}, Times)

Spec == Init /\ [][Next]_vars

(***************************************************************************)
(* SpecIO: the bytes.  One file or directory is created in the root, and   *)
(* every write, read and setattr-with-size within the bounds is applied to *)
(* it and to an inode number that has no record.                           *)
(***************************************************************************)
InosIO == {2, 3}
Offsets == 0..MaxOffset
Datas == SeqUpTo(Byte, MaxData)
MaxContent == MaxOffset + MaxData
ReadOffsets == 0..(MaxContent + 1)
ReadSizes == (0..(MaxContent + 1)) \cup {UsizeMax}
Sizes == 0..MaxContent

NextIO ==
    \/ CreateFile(2, {RootIno}, {"a"}, Perms, Times)
    \/ CreateDir(2, {RootIno}, {"a"}, Perms, Times)
    \/ Write(InosIO, Offsets, Datas, Times)
    \/ Read(InosIO, ReadOffsets, ReadSizes)
    \/ Setattr(InosIO, {None}, {None} \cup Sizes, Times)

SpecIO == Init /\ [][NextIO]_vars

(***************************************************************************)
(* SpecDir: the directories.  Creates, unlink and rmdir in the root and    *)
(* in the first inode created, and readdir of every inode number from      *)
(* every cursor with every reply capacity up to MaxCap.                    *)
(***************************************************************************)
ParentsDir == {RootIno, 2}
Cursors == 0..(MaxInode + 2)
Caps == 1..MaxCap

NextDir ==
    \/ CreateFile(MaxInode, ParentsDir, Names, Perms, Times)
    \/ CreateDir(MaxInode, ParentsDir, Names, Perms, Times)
    \/ Unlink(ParentsDir, Names, Times)
    \/ Rmdir(ParentsDir, Names, Times)
    \/ ReadDir(Inos, Cursors, Caps)

SpecDir == Init /\ [][NextDir]_vars

(***************************************************************************)
(* SpecLock: threads calling lookup, create_file and create_dir in the     *)
(* root, interleaved at their lock operations.                             *)
(***************************************************************************)
ParentsLock == {RootIno}
NamesLock == {"a"}

\* the steps of thread t inside a call
Progress(t) ==
    \/ LookupLock(t)
    \/ LookupMiss(t)
    \/ LookupRelock(t)
    \/ LookupReturn(t)
    \/ ClaimWriter(t)
    \/ CreateLocked(t, Perms, Times)

NextLock ==
    \/ \E t \in Threads : LookupBegin(t, ParentsLock, NamesLock)
    \/ \E t \in Threads : CreateBegin(t, MaxInode, {"create_file", "create_dir"},
                                      ParentsLock, NamesLock)
    \/ \E t \in Threads : LookupLock(t)
    \/ \E t \in Threads : LookupMiss(t)
    \/ \E t \in Threads : LookupRelock(t)
    \/ \E t \in Threads : LookupReturn(t)
    \/ \E t \in Threads : ClaimWriter(t)
    \/ \E t \in Threads : CreateLocked(t, Perms, Times)

SpecLock == Init /\ [][NextLock]_vars

(***************************************************************************)
(* SpecAttr: one adapter call per thread.  While no thread has called,     *)
(* the first inode is created in the root and written; then each thread    *)
(* makes one call, setattr or a write, mkdir, unlink or rmdir, and the     *)
(* calls interleave at their lock operations.                              *)
(***************************************************************************)
AllIdle == \A t \in Threads : pc[t] = Idle

InosAttr == {RootIno, 2}
ModesAttr == {None, 493}
SizesAttr == {None, 0, 2}
DatasAttr == {<<1>>}

NextAttr ==
    \/ AllIdle /\ CreateFile(2, {RootIno}, NamesLock, Perms, Times)
    \/ AllIdle /\ CreateDir(2, {RootIno}, NamesLock, Perms, Times)
    \/ AllIdle /\ Write(FirstIno, {0}, DatasAttr, Times)
    \/ \E t \in Threads : SetattrBegin(t, InosAttr, ModesAttr, SizesAttr)
    \/ \E t \in Threads : SetattrGetAttr(t)
    \/ \E t \in Threads : SetattrRead(t)
    \/ \E t \in Threads : SetattrWrite(t, Times)
    \/ \E t \in Threads : SetattrSetAttr(t)
    \/ \E t \in Threads : StoreBegin(t, MaxInode, StoreOps, InosAttr, NamesLock, DatasAttr)
    \/ \E t \in Threads : StoreLocked(t, Perms, Times)

SpecAttr == Init /\ [][NextAttr]_vars

(***************************************************************************)
(* The claims.  A claim about what a call returns and leaves behind is     *)
(* stated of the method applied to every reachable table.                  *)
(***************************************************************************)
IsFile(f, ino) == ino \in DOMAIN f /\ f[ino].attr.kind = "File"
IsDir(f, ino) == ino \in DOMAIN f /\ f[ino].attr.kind = "Directory"

\* C1: on every file inode the length of the content buffer equals the size
\* of its attribute record, also right after a setattr to a smaller size.
C1_ContentLengthIsSize ==
    \A ino \in DOMAIN files :
        IsFile(files, ino) => Len(files[ino].content) = files[ino].attr.size

\* C2: after setattr with size s on a file with content c, a full-range read
\* returns exactly s bytes: the first min(s, len(c)) bytes of c, then zeros.
C2_SetattrResizesContent ==
    \A ino \in DOMAIN files, s \in Sizes, now \in Times :
        IsFile(files, ino) =>
            LET c == files[ino].content
                after == setattr(files, ino, None, s, now).files
                got == read(after, ino, 0, UsizeMax, TRUE)
            IN /\ got.some
               /\ Len(got.data) = s
               /\ \A i \in 1..s : got.data[i] = IF i <= Len(c) THEN c[i] ELSE 0

\* C3: write(id, o, b) on an existing inode returns len(b), and the read
\* (id, o, len(b)) that follows returns exactly b.
C3_WriteThenRead ==
    \A ino \in DOMAIN files, o \in Offsets, b \in Datas, now \in Times, checks \in BOOLEAN :
        LET w == write(files, ino, o, b, now)
            r == read(w.files, ino, o, Len(b), checks)
        IN /\ w.some /\ w.n = Len(b)
           /\ r.some /\ ~r.panic /\ r.data = b

\* a write past the end has acted: zeros of a gap, then written bytes
C3_Witness ==
    /\ last.op = "write" /\ last.ok
    /\ LET c == files[last.ino].content
       IN Len(c) = 3 /\ c[1] = 0 /\ c[2] = 1 /\ c[3] = 1

\* C4: write(id, o, b) on content c leaves content of length
\* max(len(c), o + len(b)) that holds b at [o, o + len(b)), zero at every
\* position of [len(c), o), and the previous byte everywhere else; it is
\* never shorter than c.
C4_WriteContent ==
    \A ino \in DOMAIN files, o \in Offsets, b \in Datas, now \in Times :
        LET c == files[ino].content
            d == write(files, ino, o, b, now).files[ino].content
        IN /\ Len(d) = Max(Len(c), o + Len(b))
           /\ Len(d) >= Len(c)
           /\ \A i \in 1..Len(d) :
                 d[i] = IF o < i /\ i <= o + Len(b) THEN b[i - o]
                        ELSE IF i <= Len(c) THEN c[i] ELSE 0

\* a write inside longer content has acted: a written byte with bytes kept
\* before and after it
C4_Witness ==
    /\ last.op = "write" /\ last.ok
    /\ LET c == files[last.ino].content
       IN Len(c) = 4 /\ c[1] = 0 /\ c[2] = 0 /\ c[3] = 1 /\ c[4] = 0

\* C5: read(id, offset, length) on an existing id returns exactly
\* content[offset .. min(offset + length, len(content))] (empty, not absent,
\* when offset >= len(content)), and absent exactly when id has no record.
C5_ReadSlice ==
    \A ino \in InosIO, offset \in ReadOffsets, size \in ReadSizes, checks \in BOOLEAN :
        LET r == read(files, ino, offset, size, checks)
        IN IF ino \in DOMAIN files
           THEN LET c == files[ino].content
                    end == Min(offset + size, Len(c))
                IN /\ r.some /\ ~r.panic
                   /\ Len(r.data) <= size
                   /\ Len(r.data) = Max(end - offset, 0)
                   /\ \A i \in 1..Len(r.data) : r.data[i] = c[offset + i]
           ELSE ~r.some /\ ~r.panic

\* C6: for every existing directory parent, name and permission,
\* create_file(parent, name, perm) followed by lookup(parent, name) returns
\* the attributes of the inode just created (same number, kind File, same
\* permission), also when parent already holds an entry with that name.
C6_CreateThenLookup ==
    \A parent \in DOMAIN files, name \in Names, perm \in Perms, now \in Times :
        IsDir(files, parent) =>
            LET ino == allocate_inode(next_inode).ino
                r == create_file(files, ino, parent, name, perm, now)
                found == lookup(r.files, parent, name)
            IN found.ino = r.attr.ino /\ found.kind = "File" /\ found.perm = perm

\* the first entry of a sequence with the name and the kind, 0 when none
FirstEntry(entries, name, kind) ==
    IF \E i \in 1..Len(entries) : entries[i].name = name /\ entries[i].kind = kind
    THEN CHOOSE i \in 1..Len(entries) :
            /\ entries[i].name = name /\ entries[i].kind = kind
            /\ \A j \in 1..(i - 1) : ~(entries[j].name = name /\ entries[j].kind = kind)
    ELSE 0

\* C7: remove_directory(parent, name) on a matching directory-kind entry
\* whose target has a child entry returns false and leaves the whole store
\* unchanged; when the target has no child entry it returns true, removes
\* exactly that entry, drops the target's record and decrements parent's
\* link count by exactly 1.
C7_RemoveDirectory ==
    \A parent \in DOMAIN files, name \in Names, now \in Times :
        LET kids == files[parent].children
            pos == FirstEntry(kids, name, "Directory")
            r == rmdir(files, parent, name, now)
        IN pos # 0 /\ kids[pos].ino \in DOMAIN files =>
             LET target == kids[pos].ino
             IN IF files[target].children # <<>>
                THEN ~r.ok /\ r.files = files
                ELSE /\ r.ok
                     /\ DOMAIN r.files = DOMAIN files \ {target}
                     /\ \A i \in DOMAIN r.files \ {parent} : r.files[i] = files[i]
                     /\ LET left == r.files[parent].children
                        IN /\ Len(left) = Len(kids) - 1
                           /\ \A i \in 1..Len(left) :
                                 left[i] = IF i < pos THEN kids[i] ELSE kids[i + 1]
                     /\ r.files[parent].attr.nlink = files[parent].attr.nlink - 1
                     /\ r.files[parent].content = files[parent].content
                     /\ r.files[parent].attr.ino = parent
                     /\ r.files[parent].attr.kind = files[parent].attr.kind
                     /\ r.files[parent].attr.size = files[parent].attr.size
                     /\ r.files[parent].attr.perm = files[parent].attr.perm

\* rmdir has just refused a directory that holds an entry
C7_Witness ==
    /\ last.op = "rmdir" /\ ~last.ok
    /\ last.ino \in DOMAIN files
    /\ LET kids == files[last.ino].children
           pos == FirstEntry(kids, last.name, "Directory")
       IN /\ pos # 0
          /\ kids[pos].ino \in DOMAIN files
          /\ files[kids[pos].ino].children # <<>>

\* the entries of one kind, in order
KindEntries(entries, kind) == SelectSeq(entries, LAMBDA e : e.kind = kind)

C9_LinkCount ==
    \A ino \in DOMAIN files :
        IsDir(files, ino) =>
            files[ino].attr.nlink = 2 + Len(KindEntries(files[ino].children, "Directory"))

\* rmdir has just removed one of two child directories of a directory
C9_Witness ==
    /\ last.op = "rmdir" /\ last.ok
    /\ IsDir(files, last.ino)
    /\ files[last.ino].attr.nlink = 3

\* C10: every inode number that is the target of an entry of some child
\* sequence has a record in the table.
C10_NoDanglingEntry ==
    \A ino \in DOMAIN files :
        \A i \in 1..Len(files[ino].children) :
            files[ino].children[i].ino \in DOMAIN files

\* unlink has just removed an entry and its record, and an entry remains
C10_Witness ==
    /\ last.op = "unlink" /\ last.ok
    /\ \E ino \in DOMAIN files : files[ino].children # <<>>

\* C11: no directory's entry sequence holds two entries with the same name.
C11_UniqueNames ==
    \A ino \in DOMAIN files :
        IsDir(files, ino) =>
            \A i, j \in 1..Len(files[ino].children) :
                files[ino].children[i].name = files[ino].children[j].name => i = j

Creates == {"create_file", "create_dir"}

\* C12: the inode numbers handed out start at 2 and are strictly increasing:
\* every create stores its record under the counter's value, which no record
\* holds and which is above every number handed out before, and moves the
\* counter past it; no other call moves the counter, and it never goes
\* back, also after an unlink or rmdir and for a parent without a record.
C12_InodeNumbers ==
    /\ [](next_inode >= 2 /\ \A i \in DOMAIN files : i = RootIno \/ (2 <= i /\ i < next_inode))
    /\ [][/\ next_inode' >= next_inode
          /\ IF last'.op \in Creates
             THEN /\ next_inode \notin DOMAIN files
                  /\ next_inode \in DOMAIN files'
                  /\ files'[next_inode].attr.ino = next_inode
                  /\ next_inode' = next_inode + 1
             ELSE next_inode' = next_inode /\ DOMAIN files' \subseteq DOMAIN files]_vars

\* a create for a parent without a record has just been given number 3,
\* after number 2 was handed out and its inode removed
C12_Witness ==
    /\ last.op \in Creates
    /\ last.ino \notin DOMAIN files
    /\ next_inode = 4
    /\ 2 \notin DOMAIN files
    /\ 3 \in DOMAIN files

\* C15: every directory-kind inode has attribute size 0 and an empty content
\* buffer, also after write and setattr-with-size on a directory's number.
C15_DirectoryHasNoBytes ==
    \A ino \in DOMAIN files :
        IsDir(files, ino) => files[ino].attr.size = 0 /\ files[ino].content = <<>>

Removes == {"unlink", "rmdir"}

\* C16: inode 1 always has a record of kind Directory, and a record leaves
\* the table only in an unlink or rmdir call that returns true and removes
\* from its parent's sequence an entry that names the record.
C16_RootAndRecordsStay ==
    /\ [](IsDir(files, RootIno))
    /\ [][\A ino \in DOMAIN files \ DOMAIN files' :
             /\ ino # RootIno
             /\ last'.op \in Removes /\ last'.ok
             /\ last'.ino \in DOMAIN files
             /\ LET kids == files[last'.ino].children
                    named == {i \in 1..Len(kids) :
                                 kids[i].ino = ino /\ kids[i].name = last'.name}
                IN /\ named # {}
                   /\ last'.ino \in DOMAIN files' =>
                         \A i \in 1..Len(files'[last'.ino].children) :
                             files'[last'.ino].children[i].ino # ino]_vars

\* rmdir has just removed the last entry of the root, and the root remains
C16_Witness ==
    /\ last.op = "rmdir" /\ last.ok /\ last.ino = RootIno
    /\ IsDir(files, RootIno)
    /\ files[RootIno].children = <<>>
    /\ next_inode > 2

\* C17: each record stored under key k has attribute identifier k, and
\* setattr and write leave the set of keys and every identifier as they are.
C17_InodeNumberFixed ==
    /\ \A k \in DOMAIN files : files[k].attr.ino = k
    /\ \A ino \in Inos, now \in Times :
          /\ \A mode \in {None, 493}, size \in {None, 0, 1} :
                LET g == setattr(files, ino, mode, size, now).files
                IN /\ DOMAIN g = DOMAIN files
                   /\ \A k \in DOMAIN g : g[k].attr.ino = k
          /\ \A offset \in {0, 1}, data \in {<<>>, <<1>>} :
                LET g == write(files, ino, offset, data, now).files
                IN /\ DOMAIN g = DOMAIN files
                   /\ \A k \in DOMAIN g : g[k].attr.ino = k

\* setattr has just replaced the permission of inode 2, written before
C17_Witness ==
    /\ last.op = "setattr" /\ last.ok /\ last.ino = 2
    /\ files[2].attr.perm = 493
    /\ files[2].content = <<1>>
    /\ files[2].attr.ino = 2

\* the inodes whose child sequence holds an entry for ino
Holders(f, ino) ==
    {p \in DOMAIN f : \E i \in 1..Len(f[p].children) : f[p].children[i].ino = ino}

\* C18: create_file or create_directory for a parent number without a
\* record returns the new attributes and stores the new record, no child
\* sequence (the new inode's own included) holds an entry for the new inode,
\* and no existing record changes.
C18_DetachedChild ==
    \A parent \in Inos \ DOMAIN files, name \in Names, perm \in Perms, now \in Times :
        LET ino == allocate_inode(next_inode).ino
            cf == create_file(files, ino, parent, name, perm, now)
            cd == create_dir(files, ino, parent, name, perm, now)
        IN \A r \in {cf, cd} :
              /\ r.attr # NoAttr /\ r.attr.ino = ino
              /\ ino \in DOMAIN r.files /\ r.files[ino].attr = r.attr
              /\ Holders(r.files, ino) = {}
              /\ \A k \in DOMAIN files : k \in DOMAIN r.files /\ r.files[k] = files[k]

Listing(f, ino) ==
    LET kids == f[ino].children
    IN [k \in 1..(Len(kids) + 2) |->
          IF k = 1 THEN ReplyEntry(ino, 1, "Directory", ".")
          ELSE IF k = 2 THEN ReplyEntry(ino, 2, "Directory", "..")
          ELSE ReplyEntry(kids[k - 2].ino, k, kids[k - 2].kind, kids[k - 2].name)]

\* readdir from cursor offset, resumed with the cursor of the last entry
\* returned until a reply comes back empty (at most fuel calls)
RECURSIVE Resumed(_, _, _, _, _)
Resumed(f, ino, offset, cap, fuel) ==
    LET page == readdir(f, ino, offset, cap).out
    IN IF fuel = 0 \/ page = <<>> THEN <<>>
       ELSE page \o Resumed(f, ino, page[Len(page)].offset, cap, fuel - 1)

\* C13: for an unmodified directory and a reply capacity of at least one
\* entry, readdir from cursor 0 resumed with the cursor of the last entry
\* returned yields ".", "..", then every entry once in insertion order: the
\* sequence one unbroken readdir from cursor 0 returns; and from every
\* cursor a call returns the next entries of that sequence, as many as fit.
C13_ReaddirResumes ==
    \A ino \in DOMAIN files :
        LET full == Listing(files, ino)
            n == Len(full)
        IN /\ readdir(files, ino, 0, n).out = full
           /\ \A cap \in Caps :
                 /\ Resumed(files, ino, 0, cap, n + 1) = full
                 /\ \A offset \in 0..n :
                       readdir(files, ino, offset, cap).out
                          = SubSeq(full, offset + 1, Min(n, offset + cap))

\* readdir has just listed a directory of two entries, which takes more
\* than one reply of any capacity in Caps
C13_Witness ==
    /\ last.op = "readdir" /\ last.ok
    /\ Len(files[last.ino].children) = 2
    /\ Len(readdir(files, last.ino, 0, 1).out) = 1
    /\ \A cap \in Caps : cap < Len(Listing(files, last.ino))

\* C14: rmdir replies not-empty only when parent holds a directory-kind
\* entry with the name whose target has a child entry, and replies
\* not-found when parent has no record or no directory-kind entry with the
\* name.
C14_RmdirReply ==
    \A parent \in Inos, name \in Names, now \in Times :
        LET reply == fuse_rmdir(files, parent, name, now).reply
            pos == IF parent \in DOMAIN files
                   THEN FirstEntry(files[parent].children, name, "Directory") ELSE 0
        IN /\ reply = "ENOTEMPTY" =>
                 /\ pos # 0
                 /\ files[parent].children[pos].ino \in DOMAIN files
                 /\ files[files[parent].children[pos].ino].children # <<>>
           /\ pos = 0 => reply = "ENOENT"

\* C20: whenever some thread is inside a store operation, some thread
\* inside an operation can take its next step: no reachable state is a
\* deadlock, lookup's second shared guard included.
C20_NoDeadlock ==
    (\E t \in Threads : pc[t] # Idle) => ENABLED (\E t \in Threads : Progress(t))

\* C23: in every reachable state a file-kind inode has an empty child
\* sequence and link count 1, whatever parent numbers the creates are given.
C23_OnlyDirectoriesHoldEntries ==
    \A ino \in DOMAIN files :
        IsFile(files, ino) =>
            /\ files[ino].children = <<>>
            /\ files[ino].attr.nlink = 1

\* the threads inside a create that was handed inode number i
InFlight(i) == {t \in Threads : pc[t].op \in Creates /\ pc[t].ino = i}

\* the positions in the child sequence of p that hold an entry for inode i
EntriesFor(f, p, i) == {k \in 1..Len(f[p].children) : f[p].children[k].ino = i}

\* C22: creates running concurrently (identifier allocation and table
\* insertion being two separately locked steps) receive distinct inode
\* numbers: every number handed out belongs either to exactly one create
\* still running, and then has no record yet, or to a create that returned,
\* and then its record exists and its parent holds exactly one entry for
\* it; and the insertion of each create adds its own record and appends its
\* own entry, leaving every other record and every other entry as it was.
C22_ConcurrentCreates ==
    /\ [](\A t \in Threads :
             pc[t].op \in Creates => 2 <= pc[t].ino /\ pc[t].ino < next_inode)
    /\ [](\A i \in 2..(next_inode - 1) :
             \/ /\ Cardinality(InFlight(i)) = 1
                /\ i \notin DOMAIN files
             \/ /\ InFlight(i) = {}
                /\ i \in DOMAIN files
                /\ files[i].attr.ino = i
                /\ \E p \in ParentsLock :
                      /\ Holders(files, i) = {p}
                      /\ Cardinality(EntriesFor(files, p, i)) = 1
                      /\ \A k \in EntriesFor(files, p, i) :
                            files[p].children[k].kind = files[i].attr.kind)
    /\ [][\A t \in Threads :
             (pc[t].op \in Creates /\ pc'[t] = Idle) =>
                LET c == pc[t]
                    kind == IF c.op = "create_file" THEN "File" ELSE "Directory"
                IN /\ c.ino \notin DOMAIN files
                   /\ DOMAIN files' = DOMAIN files \cup {c.ino}
                   /\ files'[c.ino].attr.kind = kind
                   /\ files'[c.ino].children = <<>>
                   /\ files'[c.parent].children
                         = Append(files[c.parent].children,
                                  DirEntry(c.ino, c.name, kind))
                   /\ \A j \in DOMAIN files \ {c.parent} : files'[j] = files[j]]_vars

\* two creates overlapped and both returned: the create that was handed
\* the larger number inserted first, and both records and entries are there
C22_Witness ==
    /\ \A t \in Threads : pc[t] = Idle
    /\ next_inode = 4
    /\ {2, 3} \subseteq DOMAIN files
    /\ Len(files[RootIno].children) = 2
    /\ files[RootIno].children[1].ino = 3
    /\ files[RootIno].children[2].ino = 2

\* the table after the whole adapter call of frame c, run alone on table f
Alone(f, c) ==
    LET perm == CHOOSE m \in Perms : TRUE
        now == CHOOSE n \in Times : TRUE
    IN IF c.op = "setattr" THEN setattr(f, c.ino, c.mode, c.size, now).files
       ELSE StoreCall(f, c, perm, now).files

\* C21: when a setattr and a write, mkdir, rmdir or unlink on the same
\* inode were called on the same table, ran concurrently and both
\* returned, the table is the one that running the two calls alone, in one
\* of the two orders, produces.
C21_SetattrSerializable ==
    \A t \in Threads, u \in Threads :
        (/\ pc[t].op = "setattr" /\ pc[t].stage = "returned"
         /\ pc[u].op \in StoreOps /\ pc[u].stage = "returned"
         /\ pc[t].ino = pc[u].ino
         /\ pc[t].base = pc[u].base
         /\ \A v \in Threads \ {t, u} : pc[v] = Idle)
        => \/ files = Alone(Alone(pc[t].base, pc[t]), pc[u])
           \/ files = Alone(Alone(pc[t].base, pc[u]), pc[t])

====
